---- MODULE Spec2Model ----
(***************************************************************************)
(* State-machine model of the realtime chat client:                        *)
(*   - AuthProvider          (src/src/context/AuthContext.tsx)             *)
(*   - ChatPage              (src/unnamed/part_000)                        *)
(*   - Chat                  (src/src/components/chat.tsx)                 *)
(*   - VerifyContent, LandingPage (src/src/app/verify/page.tsx)            *)
(* The external provider (auth, message table, realtime) is the            *)
(* environment: its answers are nondeterministic inputs.                   *)
(***************************************************************************)
EXTENDS Integers, Sequences, FiniteSets, TLC

\* ---------------------------------------------------------------- bounds
MaxSessions == 2
MaxRows == 2
MaxQueue == 2
MaxFetch == 2
MaxInserts == 1
MaxTimerIds == 3
MaxRegs == 2
MaxVerifies == 2

\* ------------------------------------------------------- program constants
MinPasswordLen == 6

\* ------------------------------------------------------------------ values
NoError == "<null>"
ErrMsgs == {"e1", "e2"}
FetchErrs == {"e1"}
InsertErrs == {"e2"}
ConfigError == "Supabase connection not found."
LoginCatchError == "An error occurred during login. Please try again."
RegRequiredError == "Email, username and password are required."
RegPasswordError == "Password must be at least 6 characters."
DEFAULT_USERNAME == "Guest"

Accounts == {"ann", "bob"}
OtherAuthors == {"bob"}
NoSession == [id |-> 0, email |-> "", user_name |-> ""]
NoUser == [obj |-> 0, email |-> "", user_name |-> ""]

\* session?.user ?? null
SessionUser(s) ==
  IF s = NoSession THEN NoUser
  ELSE [obj |-> s.id, email |-> s.email, user_name |-> s.user_name]

\* user_metadata.user_name || (email.split("@")[0] ?? null); "" stands for null
AuthUsername(u) ==
  IF u = NoUser THEN ""
  ELSE IF u.user_name # "" THEN u.user_name ELSE u.email

\* authUsername || user?.email?.split("@")[0] || DEFAULT_USERNAME
ChatUsername(u) ==
  IF AuthUsername(u) # "" THEN AuthUsername(u)
  ELSE IF u # NoUser /\ u.email # "" THEN u.email
  ELSE DEFAULT_USERNAME

\* Texts are sequences of characters.
NoItem == <<"<null>">>
RECURSIVE TrimLeft(_)
TrimLeft(s) == IF s # <<>> /\ Head(s) = " " THEN TrimLeft(Tail(s)) ELSE s
RECURSIVE TrimRight(_)
TrimRight(s) ==
  IF s # <<>> /\ s[Len(s)] = " " THEN TrimRight(SubSeq(s, 1, Len(s) - 1)) ELSE s
\* String.prototype.trim
Trim(s) == TrimRight(TrimLeft(s))

Digits == {"1", "2"}
RECURSIVE StripNonDigits(_)
\* value.replace(/\D/g, "")
StripNonDigits(s) ==
  IF s = <<>> THEN <<>>
  ELSE IF Head(s) \in Digits THEN <<Head(s)>> \o StripNonDigits(Tail(s))
  ELSE StripNonDigits(Tail(s))

Drafts == {<<>>, <<" ">>, <<" ", "a">>}
RawOtps == {<<>>, <<"x">>, <<"1">>, <<"x", "1">>}
EmailTexts == {<<>>, <<" ">>, <<"e", "@", " ">>}
LoginEmailTexts == {<<>>, <<"e", "@">>}
LoginPasswordTexts == {<<>>, <<"p", "p", "p", "p", "p", "p">>}
NameTexts == {<<>>, <<"u">>}
PasswordTexts == {<<>>, <<"p", "p", "p", "p", "p">>, <<"p", "p", "p", "p", "p", "p">>}
TypingNames == {"", "ann", "bob", "cat"}

\* encodeURIComponent, and the decoding done by searchParams.get
EncodeURIComponent(s) ==
  [i \in 1..Len(s) |->
     IF s[i] = "@" THEN "%40" ELSE IF s[i] = " " THEN "%20" ELSE s[i]]
DecodeParam(s) ==
  [i \in 1..Len(s) |->
     IF s[i] = "%40" THEN "@" ELSE IF s[i] = "%20" THEN " " ELSE s[i]]

Range(f) == {f[x] : x \in DOMAIN f}

VARIABLES
  \* environment: configuration and the external provider
  configured, provSession, provNext, lastReported, store,
  \* AuthProvider
  authPhase, authUser, authSession, authLoading, authSubscribed,
  gs, gsResult, authQueue,
  \* router and session storage
  route, emailParam, nav, redirectLog, storage,
  \* Chat: messages and form
  messages, newMessage, loading, error, fetchCalls, insertCalls,
  msgChannel, rtQueue,
  \* Chat: typing
  typingUsers, typingTimeoutsRef, timers, typingChannelRef, lastTimer,
  \* Chat: presence
  onlineUsers, presenceState, presChannel, retryTimeoutId, presOrphans,
  \* LandingPage
  loginEmail, loginPassword, loginLoading, loginError, loginCall,
  regEmail, regUsername, regPassword, regLoading, regError, regSuccess,
  regCall, regTimers,
  \* VerifyContent
  otp, email, vLoading, vError, verifyCall,
  \* history counters
  nUpdateUser, nRegistered, nVerified, pendingFresh,
  \* the handler that ran in the last step ("-" for any other step)
  lastAct,
  \* the provider calls attempted in the last step
  calls

envVars == <<configured, provSession, provNext, lastReported, store>>
authVars == <<authPhase, authUser, authSession, authLoading, authSubscribed,
              gs, gsResult, authQueue>>
navVars == <<route, emailParam, nav, redirectLog>>
msgVars == <<messages, newMessage, loading, error, fetchCalls, insertCalls,
             msgChannel, rtQueue>>
typVars == <<typingUsers, typingTimeoutsRef, timers, typingChannelRef, lastTimer>>
presVars == <<onlineUsers, presenceState, presChannel, retryTimeoutId,
              presOrphans>>
chatVars == <<msgVars, typVars, presVars>>
loginVars == <<loginEmail, loginPassword, loginLoading, loginError, loginCall>>
regVars == <<regEmail, regUsername, regPassword, regLoading, regError,
             regSuccess, regCall, regTimers>>
landVars == <<loginVars, regVars>>
verVars == <<otp, email, vLoading, vError, verifyCall>>
histVars == <<nUpdateUser, nRegistered, nVerified, pendingFresh>>
vars == <<envVars, authVars, navVars, storage, chatVars, landVars, verVars,
          histVars, lastAct, calls>>

\* ------------------------------------------------------------ initial state
EmptyRef == [n \in TypingNames |-> 0]
IdleCall == [phase |-> "idle", outcome |-> "none", msg |-> NoError, live |-> TRUE]
IdleReg == [phase |-> "idle", outcome |-> "none", msg |-> NoError, live |-> TRUE,
            email |-> <<>>, username |-> <<>>, password |-> <<>>]
IdleVerify == [phase |-> "idle", outcome |-> "none", msg |-> NoError, live |-> TRUE]
NoNav == [to |-> "none", param |-> NoItem]
EmptyStorage == [auth_pending_email |-> NoItem, auth_pending_username |-> NoItem,
                 auth_pending_password |-> NoItem]
Routes == {"/", "/chat", "/verify"}

Init ==
  /\ configured \in BOOLEAN
  /\ provSession \in {NoSession} \cup
       (IF configured THEN {[id |-> 1, email |-> "ann", user_name |-> ""]} ELSE {})
  /\ provNext = IF provSession = NoSession THEN 1 ELSE 2
  /\ lastReported = NoSession
  /\ store = <<>>
  /\ authPhase = "new"
  /\ authUser = NoUser
  /\ authSession = NoSession
  /\ authLoading = TRUE
  /\ authSubscribed = FALSE
  /\ gs = "none"
  /\ gsResult = NoSession
  /\ authQueue = <<>>
  /\ route \in Routes
  /\ emailParam = NoItem
  /\ nav = NoNav
  /\ redirectLog = {}
  /\ storage = EmptyStorage
  /\ messages = <<>>
  /\ newMessage = <<>>
  /\ loading = FALSE
  /\ error = NoError
  /\ fetchCalls = {}
  /\ insertCalls = {}
  /\ msgChannel = "none"
  /\ rtQueue = <<>>
  /\ typingUsers = <<>>
  /\ typingTimeoutsRef = EmptyRef
  /\ timers = {}
  /\ typingChannelRef = "none"
  /\ lastTimer = EmptyRef
  /\ onlineUsers = <<>>
  /\ presenceState = <<>>
  /\ presChannel = "none"
  /\ retryTimeoutId = FALSE
  /\ presOrphans = {}
  /\ loginEmail = <<>>
  /\ loginPassword = <<>>
  /\ loginLoading = FALSE
  /\ loginError = NoError
  /\ loginCall = IdleCall
  /\ regEmail = <<>>
  /\ regUsername = <<>>
  /\ regPassword = <<>>
  /\ regLoading = FALSE
  /\ regError = NoError
  /\ regSuccess = FALSE
  /\ regCall = IdleReg
  /\ regTimers = {}
  /\ otp = <<>>
  /\ email = <<>>
  /\ vLoading = FALSE
  /\ vError = NoError
  /\ verifyCall = IdleVerify
  /\ nUpdateUser = 0
  /\ nRegistered = 0
  /\ nVerified = 0
  /\ pendingFresh = FALSE
  /\ lastAct = "-"
  /\ calls = {}

\* a handler or effect that never finds the client missing
ClientMissingNever == FALSE

\* if (!supabase) ...
ClientMissing == ~configured

\* ------------------------------------------------- rendering and effects
\* ChatPage renders <Chat /> only when auth loading is over and a user is held
ChatMounted(r, u, l) == r = "/chat" /\ ~l /\ u # NoUser

\* the effect without its test of the loading flag
ChatPageEffectIgnoringLoading(u, l) == IF u = NoUser THEN "/" ELSE "none"

\* ChatPage redirect effect: the navigation it issues ("none" when it returns)
ChatPageEffect(u, l) ==
  IF l THEN "none" ELSE IF u = NoUser THEN "/" ELSE "none"

\* Chat private-route effect (runs only while Chat is mounted)
ChatGuardEffect(u, l) == IF ~l /\ u = NoUser THEN "/" ELSE "none"

\* LandingPage redirect effect
LandingEffect(u, l) ==
  IF l THEN "none" ELSE IF u # NoUser THEN "/chat" ELSE "none"

\* what the three components return
ChatPageRender(u, l) ==
  IF l THEN "spinner" ELSE IF u = NoUser THEN "null" ELSE "chat"
ChatRender(u, l) == IF l \/ u = NoUser THEN "null" ELSE "content"
LandingRender(u, l) ==
  IF l THEN "spinner" ELSE IF u # NoUser THEN "null" ELSE "form"

\* the content the chat route shows: ChatPage, and Chat inside it
ChatViewRender(u, l) ==
  IF ChatPageRender(u, l) = "chat" THEN ChatRender(u, l) ELSE ChatPageRender(u, l)

RedirectOf(r, u, l) ==
  IF r = "/chat"
    THEN IF ChatPageEffect(u, l) # "none" THEN ChatPageEffect(u, l)
         ELSE IF ChatMounted(r, u, l) THEN ChatGuardEffect(u, l) ELSE "none"
  ELSE IF r = "/" THEN LandingEffect(u, l)
  ELSE "none"

\* emailParam || stored || ""
VerifyEmail(p, st) ==
  IF p # NoItem /\ p # <<>> THEN p
  ELSE IF st # NoItem /\ st # <<>> THEN st
  ELSE <<>>

Orphan(c) == IF c.phase = "idle" THEN c ELSE [c EXCEPT !.live = FALSE]

FreeFetchSlots == (1..MaxFetch) \ {c.slot : c \in fetchCalls}
NewFetch == [slot |-> CHOOSE k \in FreeFetchSlots : \A j \in FreeFetchSlots : k <= j,
             phase |-> "sent", outcome |-> "none", data |-> <<>>,
             err |-> NoError]
\* a cleanup that finds no timer id in the ref
RefIdsNone == {}

\* Object.values(typingTimeoutsRef.current)
RefIds == Range(typingTimeoutsRef) \ {0}

\* the SUBSCRIBED callback of the presence effect instance being cleaned up,
\* when it is suspended at `await roomOne.track(...)`
SuspendedTrack ==
  IF presChannel = "tracking"
    THEN {[phase |-> "tracking", state |-> presenceState, live |-> TRUE]}
    ELSE {}

\* Chat's effects on mount (m1, not m0), on a change of user (m0 and m1) and
\* their cleanups on a change of user or unmount.  c0: the provider calls
\* the step has made already.
ChatRerender(m0, m1, u1, c0) ==
  IF m1 /\ ~m0 THEN
    /\ ~ClientMissing => FreeFetchSlots # {}
    /\ fetchCalls' = IF ~ClientMissing THEN fetchCalls \cup {NewFetch} ELSE fetchCalls
    /\ msgChannel' = IF ~ClientMissing THEN "joining" ELSE "none"
    /\ typingChannelRef' = IF ~ClientMissing THEN "joining" ELSE "none"
    /\ calls' = IF ~ClientMissing THEN c0 \cup {"select", "subscribe"} ELSE c0
    /\ rtQueue' = <<>>
    /\ presChannel' = IF ~ClientMissing THEN "joining" ELSE "none"
    /\ UNCHANGED <<messages, newMessage, loading, error, insertCalls,
                   typingUsers, typingTimeoutsRef, timers, lastTimer,
                   onlineUsers, presenceState, retryTimeoutId, presOrphans>>
  ELSE IF m1 /\ m0 /\ u1 # authUser THEN
    /\ FreeFetchSlots # {}
    /\ fetchCalls' = fetchCalls \cup {NewFetch}
    /\ timers' = {t \in timers : t.id \notin RefIds}
    /\ typingTimeoutsRef' = EmptyRef
    /\ msgChannel' = "joining"
    /\ typingChannelRef' = "joining"
    /\ rtQueue' = <<>>
    /\ calls' = c0 \cup {"removeChannel", "select", "subscribe"}
    /\ presChannel' = "joining"
    /\ presenceState' = <<>>
    /\ retryTimeoutId' = FALSE
    /\ presOrphans' = presOrphans \cup SuspendedTrack
    /\ UNCHANGED <<messages, newMessage, loading, error, insertCalls,
                   typingUsers, lastTimer, onlineUsers>>
  ELSE IF m0 /\ ~m1 THEN
    /\ messages' = <<>>
    /\ newMessage' = <<>>
    /\ loading' = FALSE
    /\ error' = NoError
    /\ fetchCalls' = {}
    /\ insertCalls' = {[c EXCEPT !.live = FALSE] : c \in insertCalls}
    /\ msgChannel' = "none"
    /\ rtQueue' = <<>>
    /\ typingUsers' = <<>>
    /\ timers' = {[t EXCEPT !.live = FALSE] : t \in {x \in timers : x.id \notin RefIds}}
    /\ typingTimeoutsRef' = EmptyRef
    /\ typingChannelRef' = "none"
    /\ lastTimer' = EmptyRef
    /\ onlineUsers' = <<>>
    /\ presenceState' = <<>>
    /\ presChannel' = "none"
    /\ retryTimeoutId' = FALSE
    /\ presOrphans' = {[o EXCEPT !.live = FALSE] : o \in presOrphans \cup SuspendedTrack}
    /\ calls' = c0 \cup {"removeChannel"}
  ELSE
    /\ calls' = c0
    /\ UNCHANGED chatVars

LandRerender(pageChanged) ==
  IF pageChanged /\ route = "/" THEN
    /\ loginEmail' = <<>>
    /\ loginPassword' = <<>>
    /\ loginLoading' = FALSE
    /\ loginError' = NoError
    /\ loginCall' = Orphan(loginCall)
    /\ regEmail' = <<>>
    /\ regUsername' = <<>>
    /\ regPassword' = <<>>
    /\ regLoading' = FALSE
    /\ regError' = NoError
    /\ regSuccess' = FALSE
    /\ regCall' = Orphan(regCall)
    /\ UNCHANGED regTimers
  ELSE UNCHANGED landVars

VerRerender(r1, p1, pageChanged) ==
  IF pageChanged /\ (r1 = "/verify" \/ route = "/verify") THEN
    /\ otp' = <<>>
    /\ email' = IF r1 = "/verify" THEN VerifyEmail(p1, storage.auth_pending_email)
                ELSE <<>>
    /\ vLoading' = FALSE
    /\ vError' = NoError
    /\ verifyCall' = Orphan(verifyCall)
  ELSE IF r1 = "/verify" /\ p1 # emailParam THEN
    /\ email' = VerifyEmail(p1, storage.auth_pending_email)
    /\ UNCHANGED <<otp, vLoading, vError, verifyCall>>
  ELSE UNCHANGED verVars

\* One render pass after the held auth state or the route changed to
\* (u1, l1, r1, p1): the page's redirect effect, and the effects of the
\* components that mount, change dependencies or unmount.
Rerender(u1, l1, r1, p1, nav0, c0, mounting) ==
  LET pageChanged == mounting \/ r1 # route
      depsChanged == pageChanged \/ u1 # authUser \/ l1 # authLoading
      m0 == ~mounting /\ ChatMounted(route, authUser, authLoading)
      m1 == ChatMounted(r1, u1, l1)
      target == IF depsChanged THEN RedirectOf(r1, u1, l1) ELSE "none"
  IN /\ nav' = IF target # "none" THEN [to |-> target, param |-> NoItem] ELSE nav0
     /\ redirectLog' =
          (IF pageChanged THEN {} ELSE redirectLog) \cup
          (IF target # "none"
             THEN {[by |-> r1, to |-> target, loading |-> l1]} ELSE {})
     /\ ChatRerender(m0, m1, u1, c0)
     /\ LandRerender(pageChanged)
     /\ VerRerender(r1, p1, pageChanged)

\* ------------------------------------------------------------ AuthProvider
\* the three setters of both auth callbacks
HeldUserFor(s) == SessionUser(s)

\* the callbacks of a provider whose results never end the loading state
ApplySessionKeepsLoading(s) ==
  /\ authSession' = s
  /\ authUser' = HeldUserFor(s)
  /\ authLoading' = authLoading
  /\ Rerender(HeldUserFor(s), authLoading, route, emailParam, nav, {}, FALSE)
  /\ UNCHANGED <<route, emailParam, storage, histVars>>

ApplySession(s) ==
  /\ authSession' = s
  /\ authUser' = HeldUserFor(s)
  /\ authLoading' = FALSE
  /\ Rerender(HeldUserFor(s), FALSE, route, emailParam, nav, {}, FALSE)
  /\ UNCHANGED <<route, emailParam, storage, histVars>>

\* first commit: the page's effects, then AuthProvider's effect
Mount ==
  /\ lastAct' = "-"
  /\ authPhase = "new"
  /\ authPhase' = "run"
  /\ IF ClientMissing
       THEN /\ authLoading' = FALSE
            /\ Rerender(authUser, FALSE, route, emailParam, nav, {}, TRUE)
            /\ UNCHANGED <<authSubscribed, gs>>
       ELSE /\ authSubscribed' = TRUE
            /\ gs' = "sent"
            /\ Rerender(authUser, authLoading, route, emailParam, nav,
                        {"onAuthStateChange", "getSession"}, TRUE)
            /\ UNCHANGED authLoading
  /\ UNCHANGED <<configured, provSession, provNext, lastReported, store,
                 authUser, authSession, gsResult, authQueue, route, emailParam,
                 storage, histVars>>

\* the provider resolves the getSession promise with its current session
GetSessionAnswer ==
  /\ lastAct' = "-"
  /\ calls' = {}
  /\ gs = "sent"
  /\ gs' = "answered"
  /\ gsResult' = provSession
  /\ lastReported' = provSession
  /\ UNCHANGED <<configured, provSession, provNext, store, authPhase,
                 authUser, authSession, authLoading, authSubscribed, authQueue,
                 navVars, storage, chatVars, landVars, verVars, histVars>>

\* the .then callback of getSession
GetSessionThen ==
  /\ lastAct' = "-"
  /\ gs = "answered"
  /\ gs' = "applied"
  /\ ApplySession(gsResult)
  /\ UNCHANGED <<configured, provSession, provNext, lastReported, store,
                 authPhase, authSubscribed, gsResult, authQueue>>

\* the onAuthStateChange callback, for the oldest undelivered notification
AuthNotify ==
  /\ lastAct' = "-"
  /\ authQueue # <<>>
  /\ authQueue' = Tail(authQueue)
  /\ ApplySession(Head(authQueue))
  /\ UNCHANGED <<configured, provSession, provNext, lastReported, store,
                 authPhase, authSubscribed, gs, gsResult>>

\* ---------------------------------------------------- provider: auth state
\* the provider reports session s to the subscribed callback
CanEmit == authSubscribed => Len(authQueue) < MaxQueue
Emit(s) ==
  /\ authQueue' = IF authSubscribed THEN Append(authQueue, s) ELSE authQueue
  /\ lastReported' = IF authSubscribed THEN s ELSE lastReported

NewSession(a, n) == [id |-> provNext, email |-> a, user_name |-> n]

\* a sign-in completed outside this view's own forms (another tab)
ProvSignIn(a) ==
  /\ lastAct' = "-"
  /\ calls' = {}
  /\ configured
  /\ provSession = NoSession
  /\ provNext <= MaxSessions
  /\ CanEmit
  /\ provSession' = NewSession(a, "")
  /\ provNext' = provNext + 1
  /\ Emit(provSession')
  /\ UNCHANGED <<configured, store, authPhase, authUser, authSession,
                 authLoading, authSubscribed, gs, gsResult, navVars, storage,
                 chatVars, landVars, verVars, histVars>>

\* TOKEN_REFRESHED: a new session object for the same account
ProvRefresh ==
  /\ lastAct' = "-"
  /\ calls' = {}
  /\ provSession # NoSession
  /\ provNext <= MaxSessions
  /\ CanEmit
  /\ provSession' = NewSession(provSession.email, provSession.user_name)
  /\ provNext' = provNext + 1
  /\ Emit(provSession')
  /\ UNCHANGED <<configured, store, authPhase, authUser, authSession,
                 authLoading, authSubscribed, gs, gsResult, navVars, storage,
                 chatVars, landVars, verVars, histVars>>

\* SIGNED_OUT decided outside this view (another tab, expiry)
ProvSignOut ==
  /\ lastAct' = "-"
  /\ calls' = {}
  /\ provSession # NoSession
  /\ CanEmit
  /\ provSession' = NoSession
  /\ Emit(NoSession)
  /\ UNCHANGED <<configured, provNext, store, authPhase, authUser,
                 authSession, authLoading, authSubscribed, gs, gsResult,
                 navVars, storage, chatVars, landVars, verVars, histVars>>

\* INITIAL_SESSION, or a re-emission of the current session
ProvEmitCurrent ==
  /\ lastAct' = "-"
  /\ calls' = {}
  /\ authSubscribed
  /\ CanEmit
  /\ Emit(provSession)
  /\ UNCHANGED <<configured, provSession, provNext, store, authPhase,
                 authUser, authSession, authLoading, authSubscribed, gs,
                 gsResult, navVars, storage, chatVars, landVars, verVars,
                 histVars>>

\* ------------------------------------------------------------------ router
\* the router carries out the pending navigation
Navigate ==
  /\ lastAct' = "-"
  /\ nav # NoNav
  /\ route' = nav.to
  /\ emailParam' = DecodeParam(nav.param)
  /\ Rerender(authUser, authLoading, nav.to, DecodeParam(nav.param), NoNav, {}, FALSE)
  /\ UNCHANGED <<configured, provSession, provNext, lastReported, store,
                 authVars, storage, histVars>>

\* the user follows a link or enters an address
Visit(r, p) ==
  /\ authPhase = "run"
  /\ <<r, p>> # <<route, emailParam>>
  /\ r # "/verify" => p = NoItem
  /\ lastAct' = "-"
  /\ route' = r
  /\ emailParam' = p
  /\ Rerender(authUser, authLoading, r, p, nav, {}, FALSE)
  /\ UNCHANGED <<configured, provSession, provNext, lastReported, store,
                 authVars, storage, histVars>>

NextAuth ==
  \/ Mount
  \/ GetSessionAnswer
  \/ GetSessionThen
  \/ AuthNotify
  \/ \E a \in Accounts : ProvSignIn(a)
  \/ ProvRefresh
  \/ ProvSignOut
  \/ ProvEmitCurrent
  \/ Navigate
  \/ \E r \in Routes : Visit(r, NoItem)

SpecAuth == Init /\ [][NextAuth]_vars

\* a settled getSession promise runs its .then callback, and a notification
\* handed to the subscription runs the onAuthStateChange callback
FairAuth ==
  /\ WF_vars(GetSessionThen)
  /\ WF_vars(AuthNotify)

SpecAuthFair == SpecAuth /\ FairAuth

\* ------------------------------------------------- Chat: messages and form
NoRow == [id |-> 0, username |-> "", content |-> <<>>]
Ids(list) == {list[i].id : i \in 1..Len(list)}

\* prev.some((m) => m.id === msg.id) ? prev : [...prev, msg]
AppendIfNew(prev, msg) ==
  IF \E i \in 1..Len(prev) : prev[i].id = msg.id THEN prev ELSE Append(prev, msg)

\* the list update without the check for a row already listed
OnInsertEventNoDedup(prev, msg) == Append(prev, msg)

\* the realtime INSERT handler's list update
OnInsertEvent(prev, msg) == AppendIfNew(prev, msg)

\* handleSend's optimistic update
OnInsertResponse(prev, inserted) == AppendIfNew(prev, inserted)

\* the guard without the test of the trimmed draft
SendReturnsEarlyNoContentTest(content) == ClientMissing

\* if (!content || !supabase) return;
SendReturnsEarly(content) == content = <<>> \/ ClientMissing

\* a button that stays enabled while an insert is awaited
SendDisabledIgnoringLoading == Trim(newMessage) = <<>>

\* the send button's disabled attribute
SendDisabled == loading \/ Trim(newMessage) = <<>>

FreeInsertSlots == (1..MaxInserts) \ {c.slot : c \in insertCalls}

HandleSend ==
  /\ ChatMounted(route, authUser, authLoading)
  /\ lastAct' = "handleSend"
  /\ IF SendReturnsEarly(Trim(newMessage))
       THEN /\ calls' = {}
            /\ UNCHANGED msgVars
       ELSE /\ FreeInsertSlots # {}
            /\ loading' = TRUE
            /\ error' = NoError
            /\ insertCalls' = insertCalls \cup
                 {[slot |-> CHOOSE k \in FreeInsertSlots :
                              \A j \in FreeInsertSlots : k <= j,
                   phase |-> "sent", outcome |-> "none",
                   username |-> ChatUsername(authUser),
                   content |-> Trim(newMessage),
                   data |-> NoRow, err |-> NoError, live |-> TRUE]}
            /\ calls' = {"insert"}
            /\ UNCHANGED <<messages, newMessage, fetchCalls, msgChannel, rtQueue>>
  /\ UNCHANGED <<configured, provSession, provNext, lastReported, store,
                 authVars, navVars, storage, typVars, presVars, landVars, verVars,
                 histVars>>

\* the message table stores a row; the realtime feed notifies a joined channel
CanStore == Len(store) < MaxRows /\ (msgChannel = "joined" => Len(rtQueue) < MaxQueue)
StoreRow(u, content) ==
  LET row == [id |-> Len(store) + 1, username |-> u, content |-> content]
  IN /\ store' = Append(store, row)
     /\ rtQueue' = IF msgChannel = "joined" THEN Append(rtQueue, row) ELSE rtQueue

\* the provider carries out an insert call
InsertServer(c, outcome, msg) ==
  /\ c \in insertCalls
  /\ c.phase = "sent"
  /\ lastAct' = "-"
  /\ calls' = {}
  /\ IF outcome = "ok"
       THEN /\ CanStore
            /\ StoreRow(c.username, c.content)
            /\ insertCalls' = (insertCalls \ {c}) \cup
                 {[c EXCEPT !.phase = "answered", !.outcome = "ok",
                            !.data = [id |-> Len(store) + 1, username |-> c.username,
                                      content |-> c.content]]}
       ELSE /\ insertCalls' = (insertCalls \ {c}) \cup
                 {[c EXCEPT !.phase = "answered", !.outcome = outcome,
                            !.err = IF outcome = "error" THEN msg ELSE NoError]}
            /\ UNCHANGED <<store, rtQueue>>
  /\ UNCHANGED <<configured, provSession, provNext, lastReported, authVars, navVars, storage, messages, newMessage, loading,
                 error, fetchCalls, msgChannel, typVars, presVars, landVars, verVars,
                 histVars>>

\* an insert response whose error is never seen
InsertFailedNever(c) == FALSE

\* if (insError)
InsertFailed(c) == c.outcome = "error"

\* handleSend after its await
InsertResume(c) ==
  /\ c \in insertCalls
  /\ c.phase = "answered"
  /\ lastAct' = "-"
  /\ calls' = {}
  /\ insertCalls' = insertCalls \ {c}
  /\ IF ~c.live \/ c.outcome = "reject"
       THEN UNCHANGED <<messages, newMessage, loading, error>>
       ELSE /\ loading' = FALSE
            /\ IF InsertFailed(c)
                 THEN /\ error' = c.err
                      /\ UNCHANGED <<messages, newMessage>>
                 ELSE /\ messages' = IF c.data # NoRow
                                       THEN OnInsertResponse(messages, c.data)
                                       ELSE messages
                      /\ newMessage' = <<>>
                      /\ UNCHANGED error
  /\ UNCHANGED <<envVars, authVars, navVars, storage, fetchCalls, msgChannel,
                 rtQueue, typVars, presVars, landVars, verVars, histVars>>

\* the provider answers a select
FetchServer(c, outcome, msg) ==
  /\ c \in fetchCalls
  /\ c.phase = "sent"
  /\ lastAct' = "-"
  /\ calls' = {}
  /\ fetchCalls' = (fetchCalls \ {c}) \cup
       {[c EXCEPT !.phase = "answered", !.outcome = outcome,
                  !.data = IF outcome = "ok" THEN store ELSE <<>>,
                  !.err = IF outcome = "error" THEN msg ELSE NoError]}
  /\ UNCHANGED <<envVars, authVars, navVars, storage, messages, newMessage,
                 loading, error, insertCalls, msgChannel, rtQueue, typVars, presVars,
                 landVars, verVars, histVars>>

\* fetchMessages after its await
FetchResume(c) ==
  /\ c \in fetchCalls
  /\ c.phase = "answered"
  /\ lastAct' = "-"
  /\ calls' = {}
  /\ fetchCalls' = fetchCalls \ {c}
  /\ IF c.outcome = "reject"
       THEN UNCHANGED <<messages, error>>
       ELSE IF c.err # NoError
         THEN /\ error' = c.err
              /\ UNCHANGED messages
         ELSE /\ messages' = c.data
              /\ UNCHANGED error
  /\ UNCHANGED <<envVars, authVars, navVars, storage, newMessage, loading,
                 insertCalls, msgChannel, rtQueue, typVars, presVars, landVars, verVars,
                 histVars>>

\* another client inserts a row
OtherInsert(u) ==
  /\ configured
  /\ CanStore
  /\ lastAct' = "-"
  /\ calls' = {}
  /\ StoreRow(u, <<"a">>)
  /\ UNCHANGED <<configured, provSession, provNext, lastReported, authVars, navVars, storage, messages, newMessage, loading,
                 error, fetchCalls, insertCalls, msgChannel, typVars, presVars, landVars,
                 verVars, histVars>>

\* the db-messages channel reaches SUBSCRIBED
MsgJoined ==
  /\ msgChannel = "joining"
  /\ lastAct' = "-"
  /\ calls' = {}
  /\ msgChannel' = "joined"
  /\ UNCHANGED <<envVars, authVars, navVars, storage, messages, newMessage,
                 loading, error, fetchCalls, insertCalls, rtQueue, typVars, presVars,
                 landVars, verVars, histVars>>

\* the postgres_changes INSERT handler, for the oldest undelivered row
RtDeliver ==
  /\ msgChannel = "joined"
  /\ rtQueue # <<>>
  /\ lastAct' = "rtDeliver"
  /\ calls' = {}
  /\ messages' = OnInsertEvent(messages, Head(rtQueue))
  /\ rtQueue' = Tail(rtQueue)
  /\ UNCHANGED <<envVars, authVars, navVars, storage, newMessage, loading,
                 error, fetchCalls, insertCalls, msgChannel, typVars, presVars, landVars,
                 verVars, histVars>>

\* handleTyping: the draft changes, a typing broadcast goes out
HandleTyping(val) ==
  /\ ChatMounted(route, authUser, authLoading)
  /\ lastAct' = "-"
  /\ newMessage' = val
  /\ calls' = IF typingChannelRef # "none" THEN {"broadcast"} ELSE {}
  /\ UNCHANGED <<configured, provSession, provNext, lastReported, store,
                 authVars, navVars, storage, messages, loading, error,
                 fetchCalls, insertCalls, msgChannel, rtQueue, typVars, presVars,
                 landVars, verVars, histVars>>

\* the sign-out button: AuthProvider.signOut
SignOutClick ==
  /\ ChatMounted(route, authUser, authLoading)
  /\ lastAct' = "-"
  /\ IF ~ClientMissing
       THEN /\ CanEmit
            /\ calls' = {"signOut"}
            /\ provSession' = NoSession
            /\ Emit(NoSession)
       ELSE /\ calls' = {}
            /\ UNCHANGED <<provSession, authQueue, lastReported>>
  /\ UNCHANGED <<configured, provNext, store, authPhase, authUser, authSession,
                 authLoading, authSubscribed, gs, gsResult, navVars, storage,
                 chatVars, landVars, verVars, histVars>>

Outcomes == {"ok", "error", "reject"}

NextMsg ==
  \/ HandleSend
  \/ \E c \in insertCalls, o \in Outcomes, m \in InsertErrs : InsertServer(c, o, m)
  \/ \E c \in insertCalls : InsertResume(c)
  \/ \E c \in fetchCalls, o \in Outcomes, m \in FetchErrs : FetchServer(c, o, m)
  \/ \E c \in fetchCalls : FetchResume(c)
  \/ \E u \in OtherAuthors : OtherInsert(u)
  \/ MsgJoined
  \/ RtDeliver
  \/ \E v \in Drafts : HandleTyping(v)
  \/ SignOutClick

\* the chat view, opened with a stored session
InitChat == Init /\ configured /\ route = "/chat" /\ provSession # NoSession

NextChatAuth ==
  \/ Mount
  \/ GetSessionAnswer
  \/ GetSessionThen
  \/ AuthNotify
  \/ ProvRefresh

SpecMsg == InitChat /\ [][NextChatAuth \/ NextMsg]_vars

\* the submit event of the message form: the browser raises it only while
\* the form's button is enabled
FormSubmit == ~SendDisabled /\ HandleSend

InsertAnswers == \E c \in insertCalls, o \in Outcomes, m \in InsertErrs : InsertServer(c, o, m)

InsertResumes == \E c \in insertCalls : InsertResume(c)

\* the chat view used through its form
NextForm ==
  \/ FormSubmit
  \/ InsertAnswers
  \/ InsertResumes
  \/ \E v \in Drafts : HandleTyping(v)
  \/ SignOutClick

SpecForm == InitChat /\ [][NextChatAuth \/ NextForm]_vars

\* the provider answers every call, and the client's pending callbacks run
FairForm ==
  /\ WF_vars(InsertAnswers)
  /\ WF_vars(InsertResumes)
  /\ WF_vars(GetSessionAnswer)
  /\ WF_vars(GetSessionThen)
  /\ WF_vars(AuthNotify)

SpecFormFair == SpecForm /\ FairForm

FetchAnswers == \E c \in fetchCalls, o \in Outcomes, m \in FetchErrs : FetchServer(c, o, m)

FetchResumes == \E c \in fetchCalls : FetchResume(c)

\* the message list fed by the fetch and by the realtime channel
NextFeed ==
  \/ FetchAnswers
  \/ FetchResumes
  \/ \E u \in OtherAuthors : OtherInsert(u)
  \/ MsgJoined
  \/ RtDeliver

SpecFeed == InitChat /\ [][NextChatAuth \/ NextFeed]_vars

\* the provider answers the select, the channel joins, notifications are
\* delivered, and the client's pending callbacks run
FairFeed ==
  /\ WF_vars(FetchAnswers)
  /\ WF_vars(FetchResumes)
  /\ WF_vars(MsgJoined)
  /\ WF_vars(RtDeliver)
  /\ WF_vars(GetSessionAnswer)
  /\ WF_vars(GetSessionThen)
  /\ WF_vars(AuthNotify)

SpecFeedFair == SpecFeed /\ FairFeed

\* ------------------------------------------------------------ Chat: typing
InList(n, list) == \E i \in 1..Len(list) : list[i] = n

\* prev.includes(typingUser) ? prev : [...prev, typingUser]
AddTyping(prev, n) == IF InList(n, prev) THEN prev ELSE Append(prev, n)

\* prev.filter((u) => u !== typingUser)
RemoveTyping(prev, n) == SelectSeq(prev, LAMBDA u : u # n)

\* a handler that ignores no signal
TypingIgnoredNever(n, username) == FALSE

\* if (!typingUser || typingUser === username) return;
TypingIgnored(n, username) == n = "" \/ n = username

\* the handler without the clearTimeout of the earlier timer
ClearPendingSkipped(ts, id) == ts

\* if (typingTimeoutsRef.current[typingUser]) clearTimeout(...)
ClearPending(ts, id) == {t \in ts : t.id # id}

\* a timer id that no pending timer and no entry of the ref carries
FreeTimerIds == (1..MaxTimerIds) \ ({t.id : t \in timers} \cup RefIds)

\* the typing-room channel reaches SUBSCRIBED
TypingJoined ==
  /\ typingChannelRef = "joining"
  /\ lastAct' = "-"
  /\ calls' = {}
  /\ typingChannelRef' = "joined"
  /\ UNCHANGED <<envVars, authVars, navVars, storage, msgVars, presVars, typingUsers,
                 typingTimeoutsRef, timers, lastTimer, landVars, verVars,
                 histVars>>

\* the broadcast handler of the typing event, for a signal from name n
TypingBroadcast(n) ==
  /\ ChatMounted(route, authUser, authLoading)
  /\ typingChannelRef = "joined"
  /\ lastAct' = "typing"
  /\ calls' = {}
  /\ IF TypingIgnored(n, ChatUsername(authUser))
       THEN UNCHANGED <<typingUsers, typingTimeoutsRef, timers, lastTimer>>
       ELSE /\ FreeTimerIds # {}
            /\ LET id == CHOOSE k \in FreeTimerIds : \A j \in FreeTimerIds : k <= j
               IN /\ typingUsers' = AddTyping(typingUsers, n)
                  /\ timers' = ClearPending(timers, typingTimeoutsRef[n]) \cup
                                 {[id |-> id, name |-> n, live |-> TRUE]}
                  /\ typingTimeoutsRef' = [typingTimeoutsRef EXCEPT ![n] = id]
                  /\ lastTimer' = [lastTimer EXCEPT ![n] = id]
  /\ UNCHANGED <<envVars, authVars, navVars, storage, msgVars, presVars, typingChannelRef,
                 landVars, verVars, histVars>>

\* the 3000 ms timer t fires
TypingExpire(t) ==
  /\ t \in timers
  /\ lastAct' = "-"
  /\ calls' = {}
  /\ timers' = timers \ {t}
  /\ typingUsers' = IF t.live THEN RemoveTyping(typingUsers, t.name) ELSE typingUsers
  /\ UNCHANGED <<envVars, authVars, navVars, storage, msgVars, presVars, typingTimeoutsRef,
                 typingChannelRef, lastTimer, landVars, verVars, histVars>>

TypingExpireOf(n) == \E t \in timers : t.name = n /\ TypingExpire(t)

NextTyping ==
  \/ TypingJoined
  \/ \E n \in TypingNames : TypingBroadcast(n)
  \/ \E n \in TypingNames : TypingExpireOf(n)
  \/ SignOutClick

SpecTyping == InitChat /\ [][NextChatAuth \/ NextTyping]_vars

\* timers fire, and the client's own pending callbacks run
FairTyping ==
  /\ \A n \in TypingNames : WF_vars(TypingExpireOf(n))
  /\ WF_vars(GetSessionAnswer)
  /\ WF_vars(GetSessionThen)
  /\ WF_vars(AuthNotify)
  /\ WF_vars(TypingJoined)

SpecTypingFair == SpecTyping /\ FairTyping

\* ------------------------------------------------------------ Chat: presence
MaxMetas == 3

\* the username of a presence meta ("" for a meta that carries none)
PresNames == {"", "ann"}

\* Object.values(roomOne.presenceState()).flat(): the metas of every connection
Snapshots == UNION {[1..k -> PresNames] : k \in 0..MaxMetas}

\* meta.username || "Unknown"
MetaName(m) == IF m = "" THEN "Unknown" ELSE m

\* a map that never reports a name as present
HasNameNever(acc, name) == FALSE

\* uniqueByUsername.has(name)
HasName(acc, name) == InList(name, acc)

\* the entries of uniqueByUsername after the loop over allMetas, in
\* insertion order
RECURSIVE UniqueByUsername(_)
UniqueByUsername(metas) ==
  IF metas = <<>> THEN <<>>
  ELSE LET acc == UniqueByUsername(SubSeq(metas, 1, Len(metas) - 1))
           name == MetaName(metas[Len(metas)])
       IN IF HasName(acc, name) THEN acc ELSE Append(acc, name)

\* updateOnlineUsersFromState of the channel whose presence state is st
UpdateOnlineUsersFromState(st) == UniqueByUsername(st)

\* the presence channel joins: the subscribe callback runs with SUBSCRIBED
\* and suspends at track()
PresSubscribed ==
  /\ presChannel = "joining"
  /\ lastAct' = "-"
  /\ calls' = {"track"}
  /\ presChannel' = "tracking"
  /\ UNCHANGED <<envVars, authVars, navVars, storage, msgVars, typVars,
                 onlineUsers, presenceState, retryTimeoutId, presOrphans,
                 landVars, verVars, histVars>>

\* track() resolves: manual refresh, then the 600 ms retry timer is started
PresTrackResume ==
  /\ presChannel = "tracking"
  /\ lastAct' = "presenceTrack"
  /\ calls' = {}
  /\ presChannel' = "tracked"
  /\ onlineUsers' = UpdateOnlineUsersFromState(presenceState)
  /\ retryTimeoutId' = TRUE
  /\ UNCHANGED <<envVars, authVars, navVars, storage, msgVars, typVars,
                 presenceState, presOrphans, landVars, verVars, histVars>>

\* a presence sync with snapshot st reaches the joined channel
PresSync(st) ==
  /\ presChannel \in {"tracking", "tracked"}
  /\ lastAct' = "presenceSync"
  /\ calls' = {}
  /\ presenceState' = st
  /\ onlineUsers' = UpdateOnlineUsersFromState(st)
  /\ UNCHANGED <<envVars, authVars, navVars, storage, msgVars, typVars,
                 presChannel, retryTimeoutId, presOrphans, landVars, verVars,
                 histVars>>

\* the 600 ms retry timer of the current effect instance fires
PresRetryFire ==
  /\ retryTimeoutId
  /\ lastAct' = "presenceRetry"
  /\ calls' = {}
  /\ retryTimeoutId' = FALSE
  /\ onlineUsers' = UpdateOnlineUsersFromState(presenceState)
  /\ UNCHANGED <<envVars, authVars, navVars, storage, msgVars, typVars,
                 presenceState, presChannel, presOrphans, landVars, verVars,
                 histVars>>

\* what presenceState() of a removed channel returns: its last snapshot, or
\* nothing
RemovedChannelStates(o) == {o.state, <<>>}

\* track() resolves in a callback whose effect instance was cleaned up
\* meanwhile: the refresh and the timer start run all the same
OrphanTrackResume(o, st) ==
  /\ o \in presOrphans /\ o.phase = "tracking"
  /\ st \in RemovedChannelStates(o)
  /\ lastAct' = "staleTrack"
  /\ calls' = {}
  /\ presOrphans' = (presOrphans \ {o}) \cup {[o EXCEPT !.phase = "timer"]}
  /\ onlineUsers' = IF o.live THEN UpdateOnlineUsersFromState(st) ELSE onlineUsers
  /\ UNCHANGED <<envVars, authVars, navVars, storage, msgVars, typVars,
                 presenceState, presChannel, retryTimeoutId, landVars, verVars,
                 histVars>>

\* the retry timer such a callback started fires
OrphanRetryFire(o, st) ==
  /\ o \in presOrphans /\ o.phase = "timer"
  /\ st \in RemovedChannelStates(o)
  /\ lastAct' = "staleRetry"
  /\ calls' = {}
  /\ presOrphans' = presOrphans \ {o}
  /\ onlineUsers' = IF o.live THEN UpdateOnlineUsersFromState(st) ELSE onlineUsers
  /\ UNCHANGED <<envVars, authVars, navVars, storage, msgVars, typVars,
                 presenceState, presChannel, retryTimeoutId, landVars, verVars,
                 histVars>>

NextPresence ==
  \/ PresSubscribed
  \/ PresTrackResume
  \/ \E st \in Snapshots : PresSync(st)
  \/ PresRetryFire
  \/ \E o \in presOrphans : \E st \in Snapshots : OrphanTrackResume(o, st)
  \/ \E o \in presOrphans : \E st \in Snapshots : OrphanRetryFire(o, st)
  \/ SignOutClick

SpecPresence == InitChat /\ [][NextChatAuth \/ NextPresence]_vars

\* the three realtime channels of the chat view and its typing handler
NextChannels ==
  \/ NextTyping
  \/ MsgJoined
  \/ PresSubscribed
  \/ PresTrackResume
  \/ \E v \in Drafts : HandleTyping(v)

SpecChannels == InitChat /\ [][NextChatAuth \/ NextChannels]_vars

\* ------------------------------------------------------------- LandingPage
FormShown == route = "/" /\ authPhase = "run" /\ LandingRender(authUser, authLoading) = "form"

SetLoginEmail(v) ==
  /\ FormShown
  /\ lastAct' = "-"
  /\ calls' = {}
  /\ loginEmail' = v
  /\ UNCHANGED <<envVars, authVars, navVars, storage, chatVars, loginPassword,
                 loginLoading, loginError, loginCall, regVars, verVars, histVars>>

SetLoginPassword(v) ==
  /\ FormShown
  /\ lastAct' = "-"
  /\ calls' = {}
  /\ loginPassword' = v
  /\ UNCHANGED <<envVars, authVars, navVars, storage, chatVars, loginEmail,
                 loginLoading, loginError, loginCall, regVars, verVars, histVars>>

HandleLogin ==
  /\ FormShown
  /\ loginCall.phase = "idle"
  /\ lastAct' = "handleLogin"
  /\ IF ClientMissing
       THEN /\ loginError' = ConfigError
            /\ calls' = {}
            /\ UNCHANGED <<loginLoading, loginCall>>
       ELSE /\ loginError' = NoError
            /\ loginLoading' = TRUE
            /\ loginCall' = [IdleCall EXCEPT !.phase = "sent"]
            /\ calls' = {"signInWithPassword"}
  /\ UNCHANGED <<envVars, authVars, navVars, storage, chatVars, loginEmail,
                 loginPassword, regVars, verVars, histVars>>

\* the provider carries out signInWithPassword
LoginServer(outcome, msg) ==
  /\ loginCall.phase = "sent"
  /\ lastAct' = "-"
  /\ calls' = {}
  /\ loginCall' = [loginCall EXCEPT !.phase = "answered", !.outcome = outcome,
                     !.msg = IF outcome = "error" THEN msg ELSE NoError]
  /\ IF outcome = "ok"
       THEN /\ provNext <= MaxSessions
            /\ CanEmit
            /\ provSession' = NewSession("ann", "")
            /\ provNext' = provNext + 1
            /\ Emit(provSession')
       ELSE UNCHANGED <<provSession, provNext, authQueue, lastReported>>
  /\ UNCHANGED <<configured, store, authPhase, authUser, authSession,
                 authLoading, authSubscribed, gs, gsResult, navVars, storage,
                 chatVars, loginEmail, loginPassword, loginLoading, loginError,
                 regVars, verVars, histVars>>

\* handleLogin after its await: try, catch and finally
LoginResume ==
  /\ loginCall.phase = "answered"
  /\ lastAct' = "-"
  /\ calls' = {}
  /\ loginCall' = IdleCall
  /\ loginError' =
       IF ~loginCall.live THEN loginError
       ELSE IF loginCall.outcome = "error" THEN loginCall.msg
       ELSE IF loginCall.outcome = "reject" THEN LoginCatchError
       ELSE loginError
  /\ loginLoading' = IF loginCall.live THEN FALSE ELSE loginLoading
  /\ nav' = IF loginCall.outcome = "ok" THEN [to |-> "/chat", param |-> NoItem] ELSE nav
  /\ UNCHANGED <<envVars, authVars, route, emailParam, redirectLog, storage,
                 chatVars, loginEmail, loginPassword, regVars, verVars, histVars>>

SetRegEmail(v) ==
  /\ FormShown
  /\ lastAct' = "-"
  /\ calls' = {}
  /\ regEmail' = v
  /\ UNCHANGED <<envVars, authVars, navVars, storage, chatVars, loginVars,
                 regUsername, regPassword, regLoading, regError, regSuccess,
                 regCall, regTimers, verVars, histVars>>

SetRegUsername(v) ==
  /\ FormShown
  /\ lastAct' = "-"
  /\ calls' = {}
  /\ regUsername' = v
  /\ UNCHANGED <<envVars, authVars, navVars, storage, chatVars, loginVars,
                 regEmail, regPassword, regLoading, regError, regSuccess,
                 regCall, regTimers, verVars, histVars>>

SetRegPassword(v) ==
  /\ FormShown
  /\ lastAct' = "-"
  /\ calls' = {}
  /\ regPassword' = v
  /\ UNCHANGED <<envVars, authVars, navVars, storage, chatVars, loginVars,
                 regEmail, regUsername, regLoading, regError, regSuccess,
                 regCall, regTimers, verVars, histVars>>

\* handleRegister's validation: the message it shows, NoError when it passes
\* the validation without the test of the password length
RegValidationNoLengthTest(e, u, pw) ==
  IF e = <<>> \/ u = <<>> \/ pw = <<>> THEN RegRequiredError ELSE NoError

RegValidation(e, u, pw) ==
  IF e = <<>> \/ u = <<>> \/ pw = <<>> THEN RegRequiredError
  ELSE IF Len(pw) < MinPasswordLen THEN RegPasswordError
  ELSE NoError

HandleRegister ==
  /\ FormShown
  /\ regCall.phase = "idle"
  /\ lastAct' = "handleRegister"
  /\ regSuccess' = FALSE
  /\ LET e == Trim(regEmail)
         u == Trim(regUsername)
     IN IF ClientMissing
          THEN /\ regError' = ConfigError
               /\ calls' = {}
               /\ UNCHANGED <<regLoading, regCall>>
        ELSE IF RegValidation(e, u, regPassword) # NoError
          THEN /\ regError' = RegValidation(e, u, regPassword)
               /\ calls' = {}
               /\ UNCHANGED <<regLoading, regCall>>
        ELSE /\ regError' = NoError
             /\ regLoading' = TRUE
             /\ regCall' = [IdleReg EXCEPT !.phase = "sent", !.email = e,
                              !.username = u, !.password = regPassword]
             /\ calls' = {"signInWithOtp"}
  /\ UNCHANGED <<envVars, authVars, navVars, storage, chatVars, loginVars,
                 regEmail, regUsername, regPassword, regTimers, verVars,
                 histVars>>

\* signInWithOtp answers; handleRegister after its await
RegisterResume(outcome, msg) ==
  /\ regCall.phase = "sent"
  /\ lastAct' = "-"
  /\ calls' = {}
  /\ regCall' = [IdleReg EXCEPT !.outcome = outcome,
                   !.msg = IF outcome = "ok" THEN NoError ELSE msg]
  /\ regLoading' = IF regCall.live THEN FALSE ELSE regLoading
  /\ IF outcome = "ok"
       THEN /\ nRegistered < MaxRegs
            /\ nRegistered' = nRegistered + 1
            /\ pendingFresh' = TRUE
            /\ storage' = [auth_pending_email |-> regCall.email,
                           auth_pending_username |-> regCall.username,
                           auth_pending_password |-> regCall.password]
            /\ regSuccess' = IF regCall.live THEN TRUE ELSE regSuccess
            /\ regTimers' = regTimers \cup {regCall.email}
            /\ UNCHANGED regError
       ELSE /\ regError' = IF regCall.live THEN msg ELSE regError
            /\ UNCHANGED <<nRegistered, pendingFresh, storage, regSuccess, regTimers>>
  /\ UNCHANGED <<envVars, authVars, navVars, chatVars, loginVars, regEmail,
                 regUsername, regPassword, verVars, nUpdateUser, nVerified>>

\* the 2500 ms redirect timer of a registration fires
RegTimerFire(e) ==
  /\ e \in regTimers
  /\ lastAct' = "-"
  /\ calls' = {}
  /\ regTimers' = regTimers \ {e}
  /\ nav' = [to |-> "/verify", param |-> EncodeURIComponent(e)]
  /\ UNCHANGED <<envVars, authVars, route, emailParam, redirectLog, storage,
                 chatVars, loginVars, regEmail, regUsername, regPassword,
                 regLoading, regError, regSuccess, regCall, verVars, histVars>>

\* ----------------------------------------------------------- VerifyContent
SetOtp(raw) ==
  /\ route = "/verify"
  /\ authPhase = "run"
  /\ email # <<>>
  /\ lastAct' = "-"
  /\ calls' = {}
  /\ otp' = StripNonDigits(raw)
  /\ UNCHANGED <<envVars, authVars, navVars, storage, chatVars, landVars,
                 email, vLoading, vError, verifyCall, histVars>>

\* if (!supabase || !email || !otp.trim()) return;
VerifyReturnsEarly == ClientMissing \/ email = <<>> \/ Trim(otp) = <<>>

HandleVerify ==
  /\ route = "/verify"
  /\ authPhase = "run"
  /\ verifyCall.phase = "idle"
  /\ lastAct' = "handleVerify"
  /\ IF VerifyReturnsEarly
       THEN /\ calls' = {}
            /\ UNCHANGED <<vLoading, vError, verifyCall>>
       ELSE /\ vLoading' = TRUE
            /\ vError' = NoError
            /\ verifyCall' = [IdleVerify EXCEPT !.phase = "sent"]
            /\ calls' = {"verifyOtp"}
  /\ UNCHANGED <<envVars, authVars, navVars, storage, chatVars, landVars, otp,
                 email, histVars>>

VerifyOutcomes == {"ok", "okNoSession", "error", "reject"}

\* the provider carries out verifyOtp
VerifyServer(outcome, msg) ==
  /\ verifyCall.phase = "sent"
  /\ lastAct' = "-"
  /\ calls' = {}
  /\ verifyCall' = [verifyCall EXCEPT !.phase = "answered", !.outcome = outcome,
                      !.msg = IF outcome = "error" THEN msg ELSE NoError]
  /\ IF outcome = "ok"
       THEN /\ provNext <= MaxSessions
            /\ CanEmit
            /\ nVerified < MaxVerifies
            /\ nVerified' = nVerified + 1
            /\ UNCHANGED pendingFresh
            /\ provSession' = NewSession("ann", "")
            /\ provNext' = provNext + 1
            /\ Emit(provSession')
       ELSE UNCHANGED <<provSession, provNext, authQueue, lastReported, nVerified,
                        pendingFresh>>
  /\ UNCHANGED <<configured, store, authPhase, authUser, authSession,
                 authLoading, authSubscribed, gs, gsResult, navVars, storage,
                 chatVars, landVars, otp, email, vLoading, vError, nUpdateUser,
                 nRegistered>>

\* session?.user && pendingUsername != null && pendingPassword != null
ConsumesPending(outcome, st) ==
  /\ outcome = "ok"
  /\ st.auth_pending_username # NoItem
  /\ st.auth_pending_password # NoItem

\* a verification whose error is never seen
VerifyFailedNever(c) == FALSE

\* if (verifyError)
VerifyFailed(c) == c.outcome = "error"

\* handleVerify after the await of verifyOtp
VerifyResume ==
  /\ verifyCall.phase = "answered"
  /\ lastAct' = "verifyResume"
  /\ IF verifyCall.outcome = "reject"
       THEN /\ verifyCall' = IdleVerify
            /\ calls' = {}
            /\ UNCHANGED <<vLoading, vError, nav, nUpdateUser, pendingFresh>>
     ELSE IF VerifyFailed(verifyCall)
       THEN /\ verifyCall' = IdleVerify
            /\ calls' = {}
            /\ vError' = IF verifyCall.live THEN verifyCall.msg ELSE vError
            /\ vLoading' = IF verifyCall.live THEN FALSE ELSE vLoading
            /\ UNCHANGED <<nav, nUpdateUser, pendingFresh>>
     ELSE IF ConsumesPending(verifyCall.outcome, storage)
       THEN /\ verifyCall' = [verifyCall EXCEPT !.phase = "updating"]
            /\ calls' = {"updateUser"}
            /\ nUpdateUser' = nUpdateUser + 1
            /\ pendingFresh' = FALSE
            /\ UNCHANGED <<vLoading, vError, nav>>
     ELSE /\ verifyCall' = IdleVerify
          /\ calls' = {}
          /\ vLoading' = IF verifyCall.live THEN FALSE ELSE vLoading
          /\ nav' = [to |-> "/chat", param |-> NoItem]
          /\ UNCHANGED <<vError, nUpdateUser, pendingFresh>>
  /\ UNCHANGED <<envVars, authVars, route, emailParam, redirectLog, storage,
                 chatVars, landVars, otp, email, nRegistered, nVerified>>

\* the three removeItem calls after updateUser
ClearPendingItems(st) == EmptyStorage

\* updateUser answers; handleVerify after that await
UpdateUserResume(outcome, msg) ==
  /\ verifyCall.phase = "updating"
  /\ lastAct' = "updateResume"
  /\ calls' = {}
  /\ verifyCall' = [IdleVerify EXCEPT !.outcome = outcome,
                      !.msg = IF outcome = "error" THEN msg ELSE NoError]
  /\ IF outcome = "reject"
       THEN UNCHANGED <<storage, vLoading, nav>>
       ELSE /\ storage' = ClearPendingItems(storage)
            /\ vLoading' = IF verifyCall.live THEN FALSE ELSE vLoading
            /\ nav' = [to |-> "/chat", param |-> NoItem]
  /\ IF outcome = "ok" /\ provSession # NoSession
       THEN /\ provNext <= MaxSessions
            /\ CanEmit
            /\ provSession' = NewSession(provSession.email, "u")
            /\ provNext' = provNext + 1
            /\ Emit(provSession')
       ELSE UNCHANGED <<provSession, provNext, authQueue, lastReported>>
  /\ UNCHANGED <<configured, store, authPhase, authUser, authSession,
                 authLoading, authSubscribed, gs, gsResult, route, emailParam,
                 redirectLog, chatVars, landVars, otp, email, vError, histVars>>

ReplyOutcomes == {"ok", "error", "reject"}
AuthErrs == {"e1", "e2"}

NextLogin ==
  \/ \E v \in LoginEmailTexts : SetLoginEmail(v)
  \/ \E v \in LoginPasswordTexts : SetLoginPassword(v)
  \/ HandleLogin
  \/ \E o \in ReplyOutcomes : LoginServer(o, "e1")
  \/ LoginResume

NextRegister ==
  \/ \E v \in EmailTexts : SetRegEmail(v)
  \/ \E v \in NameTexts : SetRegUsername(v)
  \/ \E v \in PasswordTexts : SetRegPassword(v)
  \/ HandleRegister
  \/ \E o \in ReplyOutcomes : RegisterResume(o, "e2")
  \/ \E e \in {Trim(v) : v \in EmailTexts} : RegTimerFire(e)

NextVerify ==
  \/ \E raw \in RawOtps : SetOtp(raw)
  \/ HandleVerify
  \/ \E o \in VerifyOutcomes : VerifyServer(o, "e1")
  \/ VerifyResume
  \/ \E o \in ReplyOutcomes : UpdateUserResume(o, "e2")

\* registration and verification, opened without a stored session
InitReg == Init /\ configured /\ route = "/" /\ provSession = NoSession

NextRegAuth ==
  \/ Mount
  \/ GetSessionAnswer
  \/ GetSessionThen
  \/ AuthNotify
  \/ Navigate
  \/ Visit("/verify", NoItem)
  \/ Visit("/", NoItem)

SpecReg == InitReg /\ [][NextRegAuth \/ NextRegister \/ NextVerify]_vars

\* the login form of the landing view
SpecLogin == InitReg /\ [][NextRegAuth \/ NextLogin]_vars

\* the landing and verification views without a configured client
InitNoClient == Init /\ ~configured

NextNoClient ==
  \/ Mount
  \/ Navigate
  \/ \E r \in Routes : Visit(r, NoItem)
  \/ Visit("/verify", <<"e", "@">>)
  \/ \E v \in LoginEmailTexts : SetLoginEmail(v)
  \/ \E v \in LoginPasswordTexts : SetLoginPassword(v)
  \/ HandleLogin
  \/ \E v \in EmailTexts : SetRegEmail(v)
  \/ \E v \in NameTexts : SetRegUsername(v)
  \/ \E v \in PasswordTexts : SetRegPassword(v)
  \/ HandleRegister
  \/ \E raw \in RawOtps : SetOtp(raw)
  \/ HandleVerify

SpecNoClient == InitNoClient /\ [][NextNoClient]_vars

\* ------------------------------------------------------------------ claims
IsBlank(s) == \A i \in 1..Len(s) : s[i] = " "

\* C1: no two entries of the message list have the same id, whatever the
\* interleaving of fetch results, insert responses and realtime INSERT
\* notifications (the store assigns unique ids).
C1_NoDuplicateIds ==
  \A i, j \in 1..Len(messages) : i # j => messages[i].id # messages[j].id

\* the realtime feed has just delivered the echo of the local user's own row,
\* whose insert response handleSend has applied as well
C1_Witness ==
  /\ lastAct = "rtDeliver"
  /\ Len(store) = 1 /\ store[1].username = ChatUsername(authUser)
  /\ insertCalls = {}
  /\ messages = store

\* C2: a submit with an empty or whitespace-only draft makes no insert call
\* and leaves the message list, the loading flag, the error message and the
\* draft unchanged.
C2_BlankSubmitInert ==
  [][(lastAct' = "handleSend" /\ IsBlank(newMessage)) =>
       (/\ calls' = {}
        /\ UNCHANGED <<messages, loading, error, newMessage, insertCalls>>)]_vars

C2_Witness ==
  /\ lastAct = "handleSend" /\ configured
  /\ newMessage = <<" ">>

\* C4: a name in the typing indicator is eventually removed from it, whatever
\* auth-state changes occur before its timer expires.
C4_TypingExpires ==
  \A n \in TypingNames : InList(n, typingUsers) ~> ~InList(n, typingUsers)

\* C5: at most one pending expiry timer per display name, and a name leaves
\* the indicator only when the timer started by its most recent signal fires.
C5_LastSignalWins ==
  /\ [](\A n \in TypingNames : Cardinality({t \in timers : t.name = n}) <= 1)
  /\ [][\A n \in TypingNames :
          (/\ InList(n, typingUsers) /\ ~InList(n, typingUsers')
           /\ ChatMounted(route', authUser', authLoading'))
          => \E t \in timers :
               /\ t.name = n /\ t.id = lastTimer[n]
               /\ timers' = timers \ {t}]_vars

\* a second signal from bob has replaced the timer of its first signal
C5_Witness ==
  /\ InList("bob", typingUsers)
  /\ typingTimeoutsRef["bob"] = 2 /\ typingTimeoutsRef["cat"] = 0
  /\ timers = {[id |-> 2, name |-> "bob", live |-> TRUE]}

\* C6: when a run of handleVerify whose verification returned no error ends,
\* session storage holds none of the three registration handoff keys.
C6_ClearedAfterVerify ==
  [][(/\ verifyCall'.phase = "idle"
      /\ \/ verifyCall.phase = "answered" /\ verifyCall.outcome \in {"ok", "okNoSession"}
         \/ verifyCall.phase = "updating")
     => storage' = EmptyStorage]_vars

\* C7: the pending values of one registration are consumed at most once: no
\* more updateUser calls than successful registrations, and an updateUser
\* call only when a registration happened since the last consuming
\* verification.
C7_ConsumedOnce ==
  /\ [](nUpdateUser <= nRegistered)
  /\ [][nUpdateUser' > nUpdateUser => pendingFresh]_vars

\* C8: when a provider call returns an error, the view's error message is the
\* provider's error string afterwards and the step makes no further call
\* (select, insert, signInWithPassword, signInWithOtp, verifyOtp, updateUser).
C8_ErrorsSurfaced ==
  [][/\ \A c \in fetchCalls :
          (/\ c.phase = "answered" /\ c.err # NoError
           /\ fetchCalls' = fetchCalls \ {c}
           /\ ChatMounted(route', authUser', authLoading'))
          => error' = c.err /\ calls' = {}
     /\ \A c \in insertCalls :
          (/\ c.phase = "answered" /\ c.outcome = "error" /\ c.live
           /\ insertCalls' = insertCalls \ {c})
          => error' = c.err /\ calls' = {}
     /\ (/\ loginCall.phase = "answered" /\ loginCall.outcome = "error"
         /\ loginCall.live /\ loginCall'.phase = "idle")
        => loginError' = loginCall.msg /\ calls' = {}
     /\ (/\ regCall.phase = "sent" /\ regCall.live
         /\ regCall'.phase = "idle" /\ regCall'.outcome = "error")
        => regError' = regCall'.msg /\ calls' = {}
     /\ (/\ verifyCall.phase = "answered" /\ verifyCall.outcome = "error"
         /\ verifyCall.live /\ verifyCall'.phase = "idle")
        => vError' = verifyCall.msg /\ calls' = {}
     /\ (/\ verifyCall.phase = "updating" /\ verifyCall.live
         /\ verifyCall'.phase = "idle" /\ verifyCall'.outcome = "error")
        => vError' = verifyCall'.msg /\ calls' = {}]_vars

\* the five calls of C8 whose error the code does show
C8_ErrorsSurfacedButUpdate ==
  [][/\ \A c \in fetchCalls :
          (/\ c.phase = "answered" /\ c.err # NoError
           /\ fetchCalls' = fetchCalls \ {c}
           /\ ChatMounted(route', authUser', authLoading'))
          => error' = c.err /\ calls' = {}
     /\ \A c \in insertCalls :
          (/\ c.phase = "answered" /\ c.outcome = "error" /\ c.live
           /\ insertCalls' = insertCalls \ {c})
          => error' = c.err /\ calls' = {}
     /\ (/\ loginCall.phase = "answered" /\ loginCall.outcome = "error"
         /\ loginCall.live /\ loginCall'.phase = "idle")
        => loginError' = loginCall.msg /\ calls' = {}
     /\ (/\ regCall.phase = "sent" /\ regCall.live
         /\ regCall'.phase = "idle" /\ regCall'.outcome = "error")
        => regError' = regCall'.msg /\ calls' = {}
     /\ (/\ verifyCall.phase = "answered" /\ verifyCall.outcome = "error"
         /\ verifyCall.live /\ verifyCall'.phase = "idle")
        => vError' = verifyCall.msg /\ calls' = {}]_vars

\* C10: the held user is the held session's user, and once the getSession
\* result has been applied and no notification is in flight, the held
\* session is the session the provider reported last.
C10_MirrorsProvider ==
  /\ authUser = SessionUser(authSession)
  /\ (gs = "applied" /\ authQueue = <<>>) => authSession = lastReported

\* the first half of C10 alone
C10_UserOfSession == authUser = SessionUser(authSession)

\* C3: once auth loading has finished, the chat view with no user issues a
\* navigation to "/" and renders no chat content, the landing view with a
\* user issues a navigation to "/chat" and renders no form; no redirect is
\* issued while auth loading is true.
C3_Redirects ==
  /\ (route = "/chat" /\ ~authLoading /\ authUser = NoUser) =>
       /\ [by |-> "/chat", to |-> "/", loading |-> FALSE] \in redirectLog
       /\ ChatViewRender(authUser, authLoading) = "null"
  /\ (route = "/" /\ ~authLoading /\ authUser # NoUser) =>
       /\ [by |-> "/", to |-> "/chat", loading |-> FALSE] \in redirectLog
       /\ LandingRender(authUser, authLoading) = "null"
  /\ \A r \in redirectLog : ~r.loading

\* a signed-in user on the landing view, redirected to the chat view
C3_Witness ==
  /\ route = "/" /\ ~authLoading /\ authUser # NoUser
  /\ nav = [to |-> "/chat", param |-> NoItem]

\* C9: without a configured client no provider call is attempted or pending,
\* auth loading ends with no user, the chat view never mounts, and a login or
\* registration submit shows the configuration error.
C9_NoClientNoCalls ==
  ~configured =>
    /\ calls = {}
    /\ gs = "none" /\ ~authSubscribed /\ authQueue = <<>>
    /\ fetchCalls = {} /\ insertCalls = {}
    /\ msgChannel = "none" /\ typingChannelRef = "none"
    /\ loginCall.phase = "idle" /\ regCall.phase = "idle"
    /\ verifyCall.phase = "idle"
    /\ authPhase = "run" => ~authLoading /\ authUser = NoUser
    /\ ~ChatMounted(route, authUser, authLoading)
    /\ lastAct = "handleLogin" => loginError = ConfigError /\ ~loginLoading
    /\ lastAct = "handleRegister" => regError = ConfigError /\ ~regLoading

\* a registration with valid fields was submitted without a client
C9_Witness ==
  /\ ~configured /\ lastAct = "handleRegister"
  /\ RegValidation(Trim(regEmail), Trim(regUsername), regPassword) = NoError

\* the display names of a presence snapshot
SnapshotNames(st) == {MetaName(st[i]) : i \in 1..Len(st)}

\* C11: after a presence sync the online-users list has one entry per
\* distinct display name of the snapshot (a meta without a name counted as
\* "Unknown") and no other entry.
C11_SyncListsSnapshot ==
  lastAct = "presenceSync" =>
    /\ Range(onlineUsers) = SnapshotNames(presenceState)
    /\ Len(onlineUsers) = Cardinality(SnapshotNames(presenceState))

\* a sync whose snapshot holds one name on two connections and a meta
\* without a name
C11_Witness ==
  /\ lastAct = "presenceSync"
  /\ presenceState = <<"ann", "", "ann">>
  /\ onlineUsers = <<"ann", "Unknown">>

\* C12: when handleSend resumes from an insert that returned an error, the
\* message list and the draft are unchanged, the loading flag is false and
\* the error is the provider's message; the store is untouched.
C12_FailedInsertInert ==
  [][\A c \in insertCalls :
       (/\ c.phase = "answered" /\ c.outcome = "error" /\ c.live
        /\ insertCalls' = insertCalls \ {c})
       => /\ messages' = messages
          /\ newMessage' = newMessage
          /\ loading' = FALSE
          /\ error' = c.err
          /\ store' = store]_vars

\* the view after a failed insert: the error shown, the draft still there,
\* the form usable
C12_Witness ==
  /\ ChatMounted(route, authUser, authLoading)
  /\ error \in InsertErrs
  /\ ~loading /\ insertCalls = {}
  /\ Trim(newMessage) # <<>>

\* C13: the typing indicator list holds no name twice, never the local
\* user's display name and never the empty name.
C13_TypingListClean ==
  /\ \A i, j \in 1..Len(typingUsers) : typingUsers[i] = typingUsers[j] => i = j
  /\ ~InList("", typingUsers)
  /\ ChatMounted(route, authUser, authLoading)
       => ~InList(ChatUsername(authUser), typingUsers)

\* two names are shown, one of them after a repeated signal
C13_Witness ==
  /\ lastAct = "typing"
  /\ typingUsers = <<"bob", "cat">>
  /\ lastTimer["bob"] = 3

\* C14: when handleVerify resumes from a verification that returned an
\* error it calls nothing (no account update), leaves session storage and
\* the router alone, and the mounted view shows the error with its loading
\* flag reset.
C14_VerifyErrorKeepsPending ==
  [][(/\ verifyCall.phase = "answered" /\ verifyCall.outcome = "error"
      /\ verifyCall'.phase = "idle")
     => /\ calls' = {}
        /\ nUpdateUser' = nUpdateUser
        /\ storage' = storage
        /\ nav' = nav
        /\ verifyCall.live => vError' = verifyCall.msg /\ ~vLoading']_vars

\* a failed attempt with the pending registration values still stored
C14_Witness ==
  /\ route = "/verify" /\ lastAct = "verifyResume"
  /\ vError \in AuthErrs /\ ~vLoading
  /\ storage.auth_pending_email # NoItem
  /\ storage.auth_pending_username # NoItem
  /\ storage.auth_pending_password # NoItem

\* the fields a registration may go ahead with
RegFieldsValid(e, u, pw) == e # <<>> /\ u # <<>> /\ Len(pw) >= MinPasswordLen

\* C15: handleRegister makes no provider call when a field is missing or the
\* password is shorter than 6; a storage write or a scheduled redirect
\* happens only when the one-time-code request of valid fields returned no
\* error, and then all three keys are written together; no other outcome
\* writes or schedules anything.
C15_RegisterWritesOnlyOnSuccess ==
  [][/\ (/\ lastAct' = "handleRegister"
         /\ ~RegFieldsValid(Trim(regEmail), Trim(regUsername), regPassword))
        => calls' = {} /\ regCall' = regCall
     /\ lastAct' = "handleRegister"
        => storage' = storage /\ regTimers' = regTimers
     /\ ((storage' # storage /\ storage' # EmptyStorage)
          \/ ~(regTimers' \subseteq regTimers))
        => /\ regCall.phase = "sent" /\ regCall'.outcome = "ok"
           /\ RegFieldsValid(regCall.email, regCall.username, regCall.password)
           /\ storage' = [auth_pending_email |-> regCall.email,
                          auth_pending_username |-> regCall.username,
                          auth_pending_password |-> regCall.password]
           /\ regTimers' = regTimers \cup {regCall.email}
     /\ (/\ regCall.phase = "sent" /\ regCall'.phase = "idle"
         /\ regCall'.outcome # "ok")
        => storage' = storage /\ regTimers' = regTimers]_vars

\* a registration went through: the three keys are stored and the redirect
\* to the verification view is scheduled
C15_Witness ==
  /\ regCall.phase = "idle" /\ regCall.outcome = "ok"
  /\ storage.auth_pending_email # NoItem
  /\ storage.auth_pending_username # NoItem
  /\ Len(storage.auth_pending_password) >= MinPasswordLen
  /\ storage.auth_pending_email \in regTimers

\* C16: whenever a submit handler has set its loading flag, the flag is
\* eventually false again.
C16_LoadingResets ==
  /\ loading ~> ~loading
  /\ vLoading ~> ~vLoading
  /\ loginLoading ~> ~loginLoading
  /\ regLoading ~> ~regLoading

\* C17: the message list is in creation order (rows get ascending ids as
\* the store creates them).
C17_OrderedByCreation ==
  \A i, j \in 1..Len(messages) : i < j => messages[i].id < messages[j].id

\* C18: every stored row is eventually in the list of a view that stays
\* mounted, and a row in the list stays there while the view stays mounted.
C18_NoMessageLost ==
  /\ \A id \in 1..MaxRows :
       (ChatMounted(route, authUser, authLoading) /\ Len(store) >= id)
         ~> (~ChatMounted(route, authUser, authLoading) \/ id \in Ids(messages))
  /\ [][\A id \in Ids(messages) :
          ChatMounted(route, authUser, authLoading)' => id \in Ids(messages')]_vars

\* C19: no callback of a presence effect instance whose cleanup has run
\* updates the online-users list of the mounted view, and no retry timer of
\* such an instance is pending.
C19_CleanupStopsInstance ==
  /\ [](\A o \in presOrphans : o.phase # "timer")
  /\ [][~(/\ lastAct' \in {"staleTrack", "staleRetry"}
          /\ \E o \in presOrphans : o.live /\ o \notin presOrphans')]_vars

C21_ChannelsFollowSession ==
  /\ [](\/ msgChannel # "none" \/ typingChannelRef # "none"
        \/ presChannel # "none"
        => ChatMounted(route, authUser, authLoading) /\ authUser # NoUser)
  /\ [][/\ "subscribe" \in calls'
           => /\ \/ "removeChannel" \in calls'
                 \/ /\ msgChannel = "none" /\ typingChannelRef = "none"
                    /\ presChannel = "none"
              /\ msgChannel' = "joining" /\ typingChannelRef' = "joining"
              /\ presChannel' = "joining"
        /\ (/\ ChatMounted(route, authUser, authLoading)
            /\ \/ ~ChatMounted(route, authUser, authLoading)'
               \/ authUser' # authUser)
           => /\ "removeChannel" \in calls'
              /\ timers' = {}
              /\ typingTimeoutsRef' = EmptyRef
              /\ ~retryTimeoutId'
              /\ ~ChatMounted(route, authUser, authLoading)'
                 => /\ msgChannel' = "none" /\ typingChannelRef' = "none"
                    /\ presChannel' = "none"
        /\ "broadcast" \in calls'
           => /\ typingChannelRef # "none"
              /\ ChatMounted(route, authUser, authLoading)]_vars

\* the user object changed while a typing timer was pending: the cleanup
\* removed the channels and cancelled the timer, the effects subscribed anew
C21_Witness ==
  /\ ChatMounted(route, authUser, authLoading)
  /\ {"removeChannel", "subscribe"} \subseteq calls
  /\ typingUsers # <<>>
  /\ timers = {} /\ typingTimeoutsRef = EmptyRef
  /\ msgChannel = "joining" /\ typingChannelRef = "joining"
  /\ presChannel = "joining"

\* C22: the auth loading flag starts true; each handled auth result (the
\* getSession callback, an auth-state-change notification, the effect's
\* detection of a missing client) leaves it false and nothing else changes
\* it; once false it is never true again; and with a configured client an
\* answered getSession or an emitted notification leads to loading = false
C22_LoadingMonotone ==
  /\ authLoading = TRUE
  /\ [][~authLoading => ~authLoading']_vars
  /\ [][((\/ gs # "applied" /\ gs' = "applied"
          \/ Len(authQueue') < Len(authQueue)
          \/ authPhase = "new" /\ authPhase' = "run" /\ ClientMissing)
         => ~authLoading')
        /\ ((authLoading /\ ~authLoading')
            => (\/ gs # "applied" /\ gs' = "applied"
                \/ Len(authQueue') < Len(authQueue)
                \/ authPhase = "new" /\ authPhase' = "run" /\ ClientMissing))]_vars
  /\ (~ClientMissing /\ (gs = "answered" \/ authQueue # <<>>)) ~> ~authLoading

\* the getSession result and a later notification have both been handled
C22_Witness ==
  /\ ~ClientMissing
  /\ gs = "applied"
  /\ authQueue = <<>>
  /\ authSession # gsResult
  /\ ~authLoading

====
